---- MODULE Spec2Model ----
(***************************************************************************)
(* A model of azura-ssl: the certificate helpers of src/src/cert.js, the   *)
(* prompt helpers of src/src/sign.js and the command actions that chain    *)
(* them.  RSA keys, PEM files and X.509 certificates are modelled          *)
(* symbolically: a key pair is a number n, its private half signs and its  *)
(* public half verifies; a PEM file is a record of what node-forge writes  *)
(* into it.                                                                *)
(***************************************************************************)
EXTENDS Integers, Sequences, FiniteSets, TLC

VARIABLES
    disk,      \* the file system: path -> file content
    wr,        \* the last writePrivateKey call and its outcome
    rd,        \* the last readPrivateKey call and its outcome
    clock,     \* the local calendar date `new Date()` returns
    made,      \* the last createCertificate call and what it resolved with
    signed,    \* the last selfSign / signCertificate call and the certificate it left
    dnStr,     \* the string handed to parseAttrsFromString
    dnOut,     \* what parseAttrsFromString returned or threw
    sanIn,     \* the answers to getSAN's two questions
    sanOut,    \* what getSAN resolved with
    ld,        \* a getCAPrivateKey / getCACertificate call: where it stands
    pp,        \* a getPassphrase call: where it stands
    cli,       \* the command being run: where its promise chain stands
    tables     \* the descriptor objects of the shared extension tables

codecVars == <<disk, wr, rd>>
certVars  == <<clock, made, signed>>
dnVars    == <<dnStr, dnOut>>
sanVars   == <<sanIn, sanOut>>
cliVars   == <<cli, tables>>
askVars   == <<sanIn, sanOut, ld, pp, cli, tables>>
vars      == <<disk, wr, rd, clock, made, signed, dnStr, dnOut,
               sanIn, sanOut, ld, pp, cli, tables>>

(***************************************************************************)
(* Bounds of the model.                                                    *)
(***************************************************************************)
NumKeys == 2       \* RSA key pairs rsa.generateKeyPair can return
MaxLen == 8        \* longest distinguished-name string
FirstYear == 2023  \* the clock starts in FirstYear .. FirstYear + NumYears - 1
NumYears == 2
MaxTtl == 3        \* ttl in 1 .. MaxTtl years
MaxUriLen == 4     \* longest answer to getSAN's URI question
MaxIpLen == 3      \* longest answer to getSAN's IP question
MaxRounds == 3     \* rounds of getPassphrase's two questions a user goes through
MaxRuns == 2       \* commands run one after the other on the same files

KeyIds == 1 .. NumKeys

(***************************************************************************)
(* JavaScript values.  A passphrase argument is a string or is left out    *)
(* (undefined); lodash isString tells them apart.                          *)
(***************************************************************************)
Undefined == "<undefined>"
PassStrings == {"", "s", "t"}
PassArgs == PassStrings \cup {Undefined}

isString(v) == v # Undefined

PrivateKey(n) == [type |-> "PrivateKey", n |-> n]
PublicKey(n) == [type |-> "PublicKey", n |-> n]
PrivateKeys == {PrivateKey(n) : n \in KeyIds}

\* A settled promise or a finished call: a value, or a thrown error.
Ok(v) == [ok |-> TRUE, value |-> v]
Err(e) == [ok |-> FALSE, error |-> e]

None == [op |-> "none"]

(***************************************************************************)
(* Key files (node-forge's PEM functions, as cert.js calls them).          *)
(***************************************************************************)
KeyPaths == {"ca.key", "server.key"}
NoFile == [type |-> "ENOENT"]

\* pki.privateKeyToPem: a PEM message without a Proc-Type header.
privateKeyToPem(privateKey) ==
    [type |-> "RSA PRIVATE KEY", procType |-> "NONE", dek |-> "", body |-> privateKey]

\* pki.encryptRsaPrivateKey with {legacy: true, algorithm: '3des'}: a PEM
\* message with Proc-Type ENCRYPTED and a DEK-Info header, its body the key
\* under the cipher key derived from the passphrase (dek stands for it).
encryptRsaPrivateKey(privateKey, passphrase) ==
    [type |-> "RSA PRIVATE KEY", procType |-> "ENCRYPTED", dek |-> passphrase,
     body |-> privateKey]

\* pki.decryptRsaPrivateKey: null when the cipher does not finish (the
\* password is not the one the body was encrypted under); an unencrypted
\* message is decoded as it is.
Null == [type |-> "null"]
decryptRsaPrivateKey(pem, passphrase) ==
    IF pem.procType = "ENCRYPTED"
    THEN IF pem.dek = passphrase THEN pem.body ELSE Null
    ELSE pem.body

\* pki.privateKeyFromPem: throws on a message whose Proc-Type is ENCRYPTED.
privateKeyFromPem(pem) ==
    IF pem.procType = "ENCRYPTED"
    THEN Err("Could not convert private key from PEM; PEM is encrypted.")
    ELSE Ok(pem.body)

\* The PEM text writePrivateKey computes.  With a string passphrase (the
\* empty one too: isString("") is true) the key is encrypted.  Without one,
\* line 77 assigns `pem` inside the initializer of `let pem`: compiled to
\* `var` the assignment goes through and the plain PEM is the value; run as
\* `let` the binding is still uninitialised and a ReferenceError is thrown.
\* The set holds the outcomes the build can produce.
WritePemOutcomes(privateKey, passphrase) ==
    IF isString(passphrase)
    THEN {Ok(encryptRsaPrivateKey(privateKey, passphrase))}
    ELSE {Ok(privateKeyToPem(privateKey)), Err("ReferenceError: pem is not defined")}

\* writePrivateKey(privateKey, keyPath, passphrase)
WritePrivateKey(privateKey, keyPath, passphrase) ==
    /\ \E out \in WritePemOutcomes(privateKey, passphrase) :
          /\ wr' = [op |-> "writePrivateKey", privateKey |-> privateKey,
                    keyPath |-> keyPath, passphrase |-> passphrase, result |-> out]
          /\ disk' = IF out.ok THEN [disk EXCEPT ![keyPath] = out.value] ELSE disk
    /\ UNCHANGED <<rd, certVars, dnVars, askVars>>

\* readPrivateKey without the test of decryptRsaPrivateKey's result.
ReadPem_NoNullCheck(pem, passphrase) ==
    IF isString(passphrase) /\ passphrase # ""
    THEN Ok(decryptRsaPrivateKey(pem, passphrase))
    ELSE Ok(pem.body)

\* The body of readPrivateKey's then-callback, on the file's content.
ReadPem(pem, passphrase) ==
    IF isString(passphrase) /\ passphrase # ""
    THEN LET privateKey == decryptRsaPrivateKey(pem, passphrase)
         IN  IF privateKey # Null
             THEN Ok(privateKey)
             ELSE Err("Failed to decrypt private key, please check your passphrase.")
    ELSE privateKeyFromPem(pem)

\* readPrivateKey(keyPath, passphrase)
ReadPrivateKey(keyPath, passphrase) ==
    /\ rd' = [op |-> "readPrivateKey", keyPath |-> keyPath, passphrase |-> passphrase,
              pem |-> disk[keyPath],
              result |-> IF disk[keyPath] = NoFile
                         THEN Err("ENOENT")
                         ELSE ReadPem(disk[keyPath], passphrase)]
    /\ UNCHANGED <<disk, wr, certVars, dnVars, askVars>>

CodecInit ==
    /\ disk = [p \in KeyPaths |-> NoFile]
    /\ wr = None
    /\ rd = None

CodecNext ==
    \/ \E k \in PrivateKeys, path \in KeyPaths, p \in PassArgs : WritePrivateKey(k, path, p)
    \/ \E path \in KeyPaths, p \in PassArgs : ReadPrivateKey(path, p)

(***************************************************************************)
(* Calendar dates, as the local-time getters and setters of Date see them. *)
(***************************************************************************)
IsLeapYear(y) == (y % 4 = 0 /\ y % 100 # 0) \/ y % 400 = 0

DaysInMonth(y, m) ==
    IF m = 2 THEN (IF IsLeapYear(y) THEN 29 ELSE 28)
    ELSE IF m \in {4, 6, 9, 11} THEN 30 ELSE 31

Date(y, m, d) == [year |-> y, month |-> m, day |-> d]

\* The day after `date`: the clock passing midnight.
NextDay(date) ==
    IF date.day < DaysInMonth(date.year, date.month)
    THEN Date(date.year, date.month, date.day + 1)
    ELSE IF date.month < 12 THEN Date(date.year, date.month + 1, 1)
    ELSE Date(date.year + 1, 1, 1)

\* Date.prototype.setFullYear(y): the month and the day of the month are
\* kept and the date is made again; a day past the end of the month runs
\* over into the next month (29 February of a year without one is 1 March).
setFullYear(date, y) ==
    IF date.day <= DaysInMonth(y, date.month)
    THEN Date(y, date.month, date.day)
    ELSE IF date.month < 12
         THEN Date(y, date.month + 1, date.day - DaysInMonth(y, date.month))
         ELSE Date(y + 1, 1, date.day - DaysInMonth(y, date.month))

ClockYears == FirstYear .. (FirstYear + NumYears - 1)
ClockDates ==
    {Date(y, m, d) : y \in ClockYears, m \in 1 .. 12, d \in 1 .. 31}
        \cap {date \in [year : ClockYears, month : 1 .. 12, day : 1 .. 31] :
                date.day <= DaysInMonth(date.year, date.month)}

(***************************************************************************)
(* Certificates.                                                           *)
(***************************************************************************)
CA_EXTENSION_SET ==
    << [name |-> "basicConstraints", critical |-> TRUE, cA |-> TRUE],
       [name |-> "keyUsage", critical |-> TRUE, digitalSignature |-> TRUE,
        keyCertSign |-> TRUE, cRLSign |-> TRUE] >>

SERVER_EXTENSION_SET ==
    << [name |-> "basicConstraints", critical |-> TRUE, cA |-> FALSE],
       [name |-> "keyUsage", critical |-> TRUE, digitalSignature |-> TRUE,
        keyEncipherment |-> TRUE],
       [name |-> "extKeyUsage", critical |-> TRUE, serverAuth |-> TRUE,
        clientAuth |-> TRUE] >>

Attr(shortName, value) == [shortName |-> shortName, value |-> value]

\* Subjects the commands are run with.
Subjects ==
    { << Attr("CN", "ca") >>,
      << Attr("CN", "server"), Attr("O", "azura") >>,
      << >> }

\* pki.createCertificate(): an empty certificate, no issuer, no signature.
EmptyCertificate ==
    [publicKey |-> Null, serialNumber |-> "00", notBefore |-> Null, notAfter |-> Null,
     subject |-> << >>, extensions |-> << >>, issuer |-> << >>, md |-> Null,
     signature |-> Null]

\* createCertificate taking the year from the second clock reading.
NewCertificate_YearOfSecondRead(publicKey, now1, now2, ttl, attrs, exts, serial) ==
    [EmptyCertificate EXCEPT
        !.publicKey = publicKey,
        !.serialNumber = serial,
        !.notBefore = now1,
        !.notAfter = setFullYear(now2, now2.year + ttl),
        !.subject = attrs,
        !.extensions = exts]

\* The certificate the then-callback of createCertificate fills in, from the
\* generated public key, the two clock reads and the options.
NewCertificate(publicKey, now1, now2, ttl, attrs, exts, serial) ==
    [EmptyCertificate EXCEPT
        !.publicKey = publicKey,
        !.serialNumber = serial,
        !.notBefore = now1,
        !.notAfter = setFullYear(now2, now1.year + ttl),
        !.subject = attrs,
        !.extensions = exts]

\* createCertificate({ttl, attrs, exts, serial, bits}): rsa.generateKeyPair
\* yields some key pair n; `new Date()` is read twice, and the clock may pass
\* midnight between the two reads.
CreateCertificate(ttl, attrs, exts, serial) ==
    /\ \E n \in KeyIds, now2 \in {clock, NextDay(clock)} :
          /\ now2.year \in ClockYears
          /\ clock' = now2
          /\ made' = [op |-> "createCertificate", ttl |-> ttl,
                      privateKey |-> PrivateKey(n),
                      cert |-> NewCertificate(PublicKey(n), clock, now2, ttl,
                                              attrs, exts, serial)]
    /\ signed' = None
    /\ UNCHANGED <<codecVars, dnVars, askVars>>

\* What a signature is made over: forge's getTBSCertificate.
TBSCertificate(cert) ==
    [serialNumber |-> cert.serialNumber, md |-> cert.md, issuer |-> cert.issuer,
     notBefore |-> cert.notBefore, notAfter |-> cert.notAfter,
     subject |-> cert.subject, publicKey |-> cert.publicKey,
     extensions |-> cert.extensions]

\* cert.sign(key, md): records the digest (SHA-1 when none is given) and
\* signs the TBS certificate with the key.  It checks nothing about the key.
CertSign(cert, key, md) ==
    LET c == [cert EXCEPT !.md = IF md = Undefined THEN "sha1" ELSE md]
    IN  [c EXCEPT !.signature = [by |-> key.n, over |-> TBSCertificate(c)]]

\* RSA verification of a certificate's signature with a public key.
Verifies(publicKey, cert) ==
    /\ cert.signature # Null
    /\ cert.signature.by = publicKey.n
    /\ cert.signature.over = TBSCertificate(cert)

\* selfSign without the setIssuer call.
SelfSigned_NoIssuer(cert, privateKey) ==
    CertSign(cert, privateKey, Undefined)

\* The certificate selfSign({cert, privateKey}) leaves.
SelfSigned(cert, privateKey) ==
    CertSign([cert EXCEPT !.issuer = cert.subject], privateKey, Undefined)

\* signCertificate taking the issuer from the certificate, as selfSign does.
CASigned_IssuerFromSubject(cert, CAKey, CACert) ==
    CertSign([cert EXCEPT !.issuer = cert.subject], CAKey, "sha256")

\* The certificate signCertificate({cert, CAKey, CACert}) returns.
CASigned(cert, CAKey, CACert) ==
    CertSign([cert EXCEPT !.issuer = CACert.subject], CAKey, "sha256")

\* selfSign refusing a key that is not the certificate's.
SelfSign_Checked(privateKey) ==
    /\ made # None
    /\ signed = None
    /\ signed' = [op |-> "selfSign", key |-> privateKey, before |-> made.cert,
                  result |-> IF privateKey.n = made.cert.publicKey.n
                             THEN Ok(SelfSigned(made.cert, privateKey))
                             ELSE Err("key mismatch")]
    /\ UNCHANGED <<codecVars, clock, made, dnVars, askVars>>

\* selfSign on the certificate createCertificate resolved with.
SelfSign(privateKey) ==
    /\ made # None
    /\ signed = None
    /\ signed' = [op |-> "selfSign", key |-> privateKey, before |-> made.cert,
                  result |-> Ok(SelfSigned(made.cert, privateKey))]
    /\ UNCHANGED <<codecVars, clock, made, dnVars, askVars>>

\* signCertificate refusing a key that is not CACert's.
SignCertificate_Checked(CAKey, CACert) ==
    /\ made # None
    /\ signed = None
    /\ signed' = [op |-> "signCertificate", key |-> CAKey, CACert |-> CACert,
                  before |-> made.cert,
                  result |-> IF CAKey.n = CACert.publicKey.n
                             THEN Ok(CASigned(made.cert, CAKey, CACert))
                             ELSE Err("key mismatch")]
    /\ UNCHANGED <<codecVars, clock, made, dnVars, askVars>>

\* signCertificate on the certificate createCertificate resolved with.
SignCertificate(CAKey, CACert) ==
    /\ made # None
    /\ signed = None
    /\ signed' = [op |-> "signCertificate", key |-> CAKey, CACert |-> CACert,
                  before |-> made.cert,
                  result |-> Ok(CASigned(made.cert, CAKey, CACert))]
    /\ UNCHANGED <<codecVars, clock, made, dnVars, askVars>>

\* CA certificates on hand: made by sign-ca (serial '01', ttl 2,
\* CA_EXTENSION_SET, self-signed) for each key pair.
CASubjects == { << Attr("CN", "ca") >>, << Attr("CN", "root"), Attr("C", "CN") >> }
CAIssued == Date(FirstYear, 1, 1)
CACerts ==
    { SelfSigned(NewCertificate(PublicKey(n), CAIssued, CAIssued, 2, subj,
                                CA_EXTENSION_SET, "01"), PrivateKey(n))
        : n \in KeyIds, subj \in CASubjects }

CertIdle == made = None /\ signed = None
DnIdle == dnStr = << >> /\ dnOut = None

\* The tables as the module defines them, at start-up.
StartTables == [CA |-> CA_EXTENSION_SET, SERVER |-> SERVER_EXTENSION_SET]

\* No prompt asked, no command started.
AskIdle ==
    /\ sanIn = None /\ sanOut = None
    /\ ld = None
    /\ pp = None
    /\ cli = None
    /\ tables = StartTables

\* Issuing: any date, any ttl.
DateInit ==
    /\ AskIdle
    /\ CodecInit
    /\ DnIdle
    /\ clock \in ClockDates
    /\ CertIdle

DateNext ==
    \E ttl \in 1 .. MaxTtl :
        CreateCertificate(ttl, << Attr("CN", "ca") >>, CA_EXTENSION_SET, "01")

SpecDate == DateInit /\ [][DateNext]_vars

\* Signing: certificates made within one day.
SignInit ==
    /\ AskIdle
    /\ CodecInit
    /\ DnIdle
    /\ clock = Date(FirstYear, 1, 1)
    /\ CertIdle

SignNext ==
    \/ \E ttl \in 1 .. MaxTtl, attrs \in Subjects :
          \/ CreateCertificate(ttl, attrs, CA_EXTENSION_SET, "01") /\ clock' = clock
          \/ CreateCertificate(ttl, attrs, SERVER_EXTENSION_SET, "02") /\ clock' = clock
    \/ \E privateKey \in PrivateKeys : SelfSign(privateKey)
    \/ \E CAKey \in PrivateKeys, CACert \in CACerts : SignCertificate(CAKey, CACert)

SpecSign == SignInit /\ [][SignNext]_vars

\* Key files: written and read back.
KeyFilesInit ==
    /\ AskIdle
    /\ CodecInit
    /\ DnIdle
    /\ clock = Date(FirstYear, 1, 1)
    /\ CertIdle

SpecCodec == KeyFilesInit /\ [][CodecNext]_vars

(***************************************************************************)
(* Distinguished-name strings.  A string is a sequence of characters; LF   *)
(* is the line feed, a character the `.` of a regular expression does not  *)
(* match.                                                                  *)
(***************************************************************************)
LF == "\n"
Alphabet == {"/", "=", "a", LF}
LineTerminators == {LF}
DnStrings == UNION {[1 .. n -> Alphabet] : n \in 0 .. MaxLen}

\* The index of the first `ch` in s, 0 when there is none.
IndexOf(s, ch) ==
    IF \E i \in 1 .. Len(s) : s[i] = ch
    THEN CHOOSE i \in 1 .. Len(s) : s[i] = ch /\ \A j \in 1 .. (i - 1) : s[j] # ch
    ELSE 0

\* String.prototype.split(sep): the pieces between the separators, the empty
\* ones included; a string without a separator is the one piece.
RECURSIVE split(_, _)
split(s, sep) ==
    LET i == IndexOf(s, sep)
    IN  IF i = 0 THEN << s >>
        ELSE << SubSeq(s, 1, i - 1) >> \o split(SubSeq(s, i + 1, Len(s)), sep)

\* The last index of `ch` in s, 0 when there is none.
LastIndexOf(s, ch) ==
    IF \E i \in 1 .. Len(s) : s[i] = ch
    THEN CHOOSE i \in 1 .. Len(s) : s[i] = ch /\ \A j \in (i + 1) .. Len(s) : s[j] # ch
    ELSE 0

\* pair.match(/^(.+)=(.+)$/): the greedy group 1 runs to the last '='.
match_Greedy(pair) ==
    LET i == LastIndexOf(pair, "=")
    IN  IF /\ i > 1
           /\ i < Len(pair)
           /\ \A j \in 1 .. Len(pair) : pair[j] \notin LineTerminators
        THEN [matched |-> TRUE, g1 |-> SubSeq(pair, 1, i - 1),
              g2 |-> SubSeq(pair, i + 1, Len(pair))]
        ELSE [matched |-> FALSE]

\* pair.match(/^([^=]+)=(.+)$/): group 1 is what precedes the first '=' and
\* is not empty; group 2 is the rest, not empty and without a line
\* terminator ('.' matches none and '$' only the end of the string).
NoMatch == [matched |-> FALSE]
match(pair) ==
    LET i == IndexOf(pair, "=")
    IN  IF /\ i > 1
           /\ i < Len(pair)
           /\ \A j \in (i + 1) .. Len(pair) : pair[j] \notin LineTerminators
        THEN [matched |-> TRUE, g1 |-> SubSeq(pair, 1, i - 1),
              g2 |-> SubSeq(pair, i + 1, Len(pair))]
        ELSE NoMatch

\* forEach passing over the empty pairs.
RECURSIVE forEachPair_SkipEmpty(_, _)
forEachPair_SkipEmpty(pairs, attrs) ==
    IF pairs = << >> THEN Ok(attrs)
    ELSE IF Head(pairs) = << >> THEN forEachPair_SkipEmpty(Tail(pairs), attrs)
    ELSE LET matchResult == match(Head(pairs))
         IN  IF matchResult.matched
             THEN forEachPair_SkipEmpty(Tail(pairs),
                      Append(attrs, Attr(matchResult.g1, matchResult.g2)))
             ELSE Err([message |-> "Subjects malformed: ", pair |-> Head(pairs)])

\* pairs.forEach(...): pushes an attribute per matching pair and throws the
\* string `Subjects malformed: ${pair}` at the first pair that does not match.
RECURSIVE forEachPair(_, _)
forEachPair(pairs, attrs) ==
    IF pairs = << >> THEN Ok(attrs)
    ELSE LET matchResult == match(Head(pairs))
         IN  IF matchResult.matched
             THEN forEachPair(Tail(pairs),
                              Append(attrs, Attr(matchResult.g1, matchResult.g2)))
             ELSE Err([message |-> "Subjects malformed: ", pair |-> Head(pairs)])

\* parseAttrsFromString(dnStr): split at '/', drop the first piece, match the rest.
parseAttrsFromString(str) ==
    LET pairs == split(str, "/")
    IN  forEachPair(Tail(pairs), << >>)

ParseAttrs ==
    /\ dnOut = None
    /\ dnOut' = [op |-> "parseAttrsFromString", result |-> parseAttrsFromString(dnStr)]
    /\ UNCHANGED <<codecVars, certVars, dnStr, askVars>>

DnInit ==
    /\ AskIdle
    /\ CodecInit /\ clock = Date(FirstYear, 1, 1) /\ CertIdle
    /\ dnStr \in DnStrings
    /\ dnOut = None

SpecDn == DnInit /\ [][ParseAttrs]_vars

(***************************************************************************)
(* getSAN.  The answers are strings of characters.                         *)
(***************************************************************************)
UriStrings == UNION {[1 .. n -> {"a", "b", ",", " "}] : n \in 0 .. MaxUriLen}
IpStrings == UNION {[1 .. n -> {"1", ",", " "}] : n \in 0 .. MaxIpLen}

\* String.prototype.replace(' ', ''): a string pattern is replaced once,
\* at its first occurrence.
replaceSpace(s) ==
    LET i == IndexOf(s, " ")
    IN  IF i = 0 THEN s ELSE SubSeq(s, 1, i - 1) \o SubSeq(s, i + 1, Len(s))

UriEntry(uri) == [type |-> 6, value |-> uri]
IpEntry(ip) == [type |-> 7, ip |-> ip]

\* The entries forEach pushes for one answer.
AltNamesOf(answer, type) ==
    LET tokens == split(replaceSpace(answer), ",")
    IN  [k \in 1 .. Len(tokens) |->
            IF type = "uri" THEN UriEntry(tokens[k]) ELSE IpEntry(tokens[k])]

\* getSAN with the IP entries pushed before the URI entries.
getSAN_IpsFirst(uris, ips) ==
    << [name |-> "subjectAltName",
        altNames |-> AltNamesOf(ips, "ip") \o AltNamesOf(uris, "uri")] >>

\* The value getSAN's then-callback returns for the answers uris and ips.
getSAN(uris, ips) ==
    << [name |-> "subjectAltName",
        altNames |-> AltNamesOf(uris, "uri") \o AltNamesOf(ips, "ip")] >>

GetSAN ==
    /\ sanIn # None
    /\ sanOut = None
    /\ sanOut' = [op |-> "getSAN", result |-> Ok(getSAN(sanIn.uris, sanIn.ips))]
    /\ UNCHANGED <<codecVars, certVars, dnVars, sanIn, ld, pp, cliVars>>

SanInit ==
    /\ CodecInit
    /\ DnIdle
    /\ clock = Date(FirstYear, 1, 1)
    /\ CertIdle
    /\ sanIn \in [op : {"answers"}, uris : UriStrings, ips : IpStrings]
    /\ sanOut = None
    /\ ld = None
    /\ pp = None
    /\ cli = None
    /\ tables = StartTables

SpecSan == SanInit /\ [][GetSAN]_vars

(***************************************************************************)
(* getCAPrivateKey and getCACertificate.  Each call prompts, reads the     *)
(* file and, on any error, prints it and starts a call of getCAPrivateKey  *)
(* without a path, whose promise it resolves with.                         *)
(***************************************************************************)
CAFileCert ==
    SelfSigned(NewCertificate(PublicKey(1), CAIssued, CAIssued, 2, << Attr("CN", "ca") >>,
                              CA_EXTENSION_SET, "01"), PrivateKey(1))

\* pki.certificateToPem
certificateToPem(cert) == [type |-> "CERTIFICATE", procType |-> "NONE", body |-> cert]

\* The files the user can point the prompts at.
LoadPaths == {"ca.key", "plain.key", "ca.crt", "gone"}
LoadDisk ==
    [p \in LoadPaths |->
        IF p = "ca.key" THEN encryptRsaPrivateKey(PrivateKey(1), "s")
        ELSE IF p = "plain.key" THEN privateKeyToPem(PrivateKey(NumKeys))
        ELSE IF p = "ca.crt" THEN certificateToPem(CAFileCert)
        ELSE NoFile]

\* pathExistsSync
pathExistsSync(fs, path) == path \in DOMAIN fs /\ fs[path] # NoFile

\* readPrivateKey on a file of any kind: forge refuses a PEM whose header is
\* not a private key's before it looks at the passphrase.
readPrivateKey(fs, path, passphrase) ==
    IF ~pathExistsSync(fs, path) THEN Err("ENOENT")
    ELSE IF fs[path].type # "RSA PRIVATE KEY"
    THEN Err("Could not convert private key from PEM; PEM header type is not a private key's.")
    ELSE ReadPem(fs[path], passphrase)

\* readCertificate: pki.certificateFromPem refuses a PEM that is no certificate.
readCertificate(fs, path) ==
    IF ~pathExistsSync(fs, path) THEN Err("ENOENT")
    ELSE IF fs[path].type # "CERTIFICATE"
    THEN Err("Could not convert certificate from PEM; PEM header type is not a certificate's.")
    ELSE Ok(fs[path].body)

\* An error as the catch prints it: the message, and the path it is about.
Failure(message, path) == [message |-> message, path |-> path]
NotFound(what, path) ==
    Failure(IF what = "private key" THEN "Can not locate the CA private key: "
            ELSE "Can not locate the CA certificate: ", path)

\* A caller calls getCAPrivateKey(path) or getCACertificate(path); the path
\* is a string (--cakey, --ca) or is left out.
CallLoader(fn, path) ==
    /\ ld = None
    /\ ld' = [op |-> fn, arg |-> path, running |-> fn, runArg |-> path,
              status |-> "prompting", printed |-> {}, from |-> Undefined,
              result |-> Null]
    /\ UNCHANGED <<codecVars, certVars, dnVars, sanVars, pp, cliVars>>

\* The catch passing the error on to the caller.
Retry_Rethrow(error) ==
    [ld EXCEPT !.status = "rejected", !.result = error]

\* The catch of either function: the error is printed and getCAPrivateKey()
\* is called, without a path.
Retry(error) ==
    [ld EXCEPT !.running = "getCAPrivateKey", !.runArg = Undefined,
               !.printed = @ \cup {error}]

\* Where the read of path left the call: resolved with what was read, or
\* retrying.
Settle(what, path, read) ==
    IF ~pathExistsSync(disk, path) THEN Retry(NotFound(what, path))
    ELSE IF read.ok
    THEN [ld EXCEPT !.status = "resolved", !.from = path, !.result = read.value]
    ELSE Retry(Failure(read.error, path))

\* One round of getCAPrivateKey: the path question is asked when no path was
\* given, the passphrase question always.
AnswerKeyPrompt(keyPath, passphrase) ==
    /\ ld # None
    /\ ld.status = "prompting"
    /\ ld.running = "getCAPrivateKey"
    /\ LET confirmedPath == IF isString(ld.runArg) THEN ld.runArg ELSE keyPath
       IN  ld' = Settle("private key", confirmedPath,
                        readPrivateKey(disk, confirmedPath, passphrase))
    /\ UNCHANGED <<codecVars, certVars, dnVars, sanVars, pp, cliVars>>

\* One round of getCACertificate.
AnswerCertPrompt(crtPath) ==
    /\ ld # None
    /\ ld.status = "prompting"
    /\ ld.running = "getCACertificate"
    /\ LET confirmedPath == IF isString(ld.runArg) THEN ld.runArg ELSE crtPath
       IN  ld' = Settle("certificate", confirmedPath, readCertificate(disk, confirmedPath))
    /\ UNCHANGED <<codecVars, certVars, dnVars, sanVars, pp, cliVars>>

LoadInit ==
    /\ disk = LoadDisk
    /\ wr = None
    /\ rd = None
    /\ DnIdle
    /\ clock = Date(FirstYear, 1, 1)
    /\ CertIdle
    /\ AskIdle

LoadNext ==
    \/ \E fn \in {"getCAPrivateKey", "getCACertificate"},
          path \in LoadPaths \cup {Undefined} : CallLoader(fn, path)
    \/ \E keyPath \in LoadPaths, passphrase \in PassStrings :
          AnswerKeyPrompt(keyPath, passphrase)
    \/ \E crtPath \in LoadPaths : AnswerCertPrompt(crtPath)

SpecLoad == LoadInit /\ [][LoadNext]_vars

(***************************************************************************)
(* getPassphrase.  A round is one inquirer.prompt of the two questions;    *)
(* the second is asked only when the first answer is not empty.            *)
(***************************************************************************)
Round(passphrase, passphraseConfirm) ==
    [passphrase |-> passphrase, passphraseConfirm |-> passphraseConfirm]

CallPassphrase ==
    /\ pp = None
    /\ pp' = [op |-> "getPassphrase", status |-> "prompting", rounds |-> << >>,
              result |-> Undefined]
    /\ UNCHANGED <<codecVars, certVars, dnVars, sanVars, ld, cliVars>>

\* The then-callback returning the passphrase whatever the confirmation.
AfterRound_NoCompare(call, anwsers) ==
    [call EXCEPT !.rounds = Append(@, anwsers), !.status = "resolved",
                 !.result = anwsers.passphrase]

\* The then-callback on a round's answers: the passphrase is returned when
\* it is empty or equals its confirmation; otherwise getPassphrase() is
\* called again and its promise returned.
AfterRound(call, anwsers) ==
    IF anwsers.passphrase = "" \/ anwsers.passphrase = anwsers.passphraseConfirm
    THEN [call EXCEPT !.rounds = Append(@, anwsers), !.status = "resolved",
                      !.result = anwsers.passphrase]
    ELSE [call EXCEPT !.rounds = Append(@, anwsers)]

AnswerPassphrase(passphrase, confirmation) ==
    /\ pp # None
    /\ pp.status = "prompting"
    /\ Len(pp.rounds) < MaxRounds
    /\ pp' = AfterRound(pp, Round(passphrase,
                 IF passphrase # "" THEN confirmation ELSE Undefined))
    /\ UNCHANGED <<codecVars, certVars, dnVars, sanVars, ld, cliVars>>

PassInit ==
    /\ CodecInit
    /\ DnIdle
    /\ clock = Date(FirstYear, 1, 1)
    /\ CertIdle
    /\ AskIdle

PassNext ==
    \/ CallPassphrase
    \/ \E passphrase \in PassStrings, confirmation \in PassStrings :
          AnswerPassphrase(passphrase, confirmation)

SpecPass == PassInit /\ [][PassNext]_vars

(***************************************************************************)
(* The commands sign-ca, sign-server and sign-client.  Each is a chain of  *)
(* promises; cli.pc names the promise the chain is waiting for.  The       *)
(* prompt helpers are taken by what they resolve with.                     *)
(***************************************************************************)
Commands == {"sign-ca", "sign-server", "sign-client"}
CliPaths == {"ca.key", "ca.crt", "server.key", "server.crt",
             "client.key", "client.crt", "client.p12"}

\* `${basePath}.key`, `${basePath}.crt` and `${basePath}.p12`, the commands
\* being run with the file names ca, server and client.
keyPath(cmd) ==
    IF cmd = "sign-ca" THEN "ca.key"
    ELSE IF cmd = "sign-server" THEN "server.key" ELSE "client.key"
certPath(cmd) ==
    IF cmd = "sign-ca" THEN "ca.crt"
    ELSE IF cmd = "sign-server" THEN "server.crt" ELSE "client.crt"
p12Path == "client.p12"

\* What getSubjects resolves with: the attributes of --subj, or those of the
\* answers that are not empty, none when all are.
CliSubjects == { << Attr("CN", "azura") >>, << >> }

\* What getSAN resolves with, for one pair of answers.
CliAltNames == getSAN(<< "a" >>, << "1" >>)

\* What getCAPrivateKey can resolve with: a key it read from some file the
\* user named, with some passphrase the user typed.
KeyLoads(fs) ==
    {r.value : r \in {read \in {readPrivateKey(fs, path, passphrase) :
                                   path \in DOMAIN fs, passphrase \in PassStrings} :
                         read.ok}}

\* What getCACertificate can resolve with: a certificate it read or, after
\* a round that failed, what getCAPrivateKey resolves with.
CertLoads(fs) ==
    {r.value : r \in {read \in {readCertificate(fs, path) : path \in DOMAIN fs} :
                         read.ok}}
        \cup KeyLoads(fs)

\* An object with a subject: a certificate, not a key.
HasSubject(v) == "subject" \in DOMAIN v

\* The object identifier forge looks up for an extension's name.
oids(name) ==
    IF name = "basicConstraints" THEN "2.5.29.19"
    ELSE IF name = "keyUsage" THEN "2.5.29.15"
    ELSE IF name = "extKeyUsage" THEN "2.5.29.37"
    ELSE "2.5.29.17"

\* What cert.setExtensions does to one descriptor object: the fields id and
\* value it lacks are set on the object itself.
fillMissingExtensionFields(e) ==
    LET withId == IF "id" \in DOMAIN e THEN e ELSE e @@ [id |-> oids(e.name)]
    IN  IF "value" \in DOMAIN withId THEN withId
        ELSE withId @@ [value |-> [asn1 |-> e.name]]

\* cert.setExtensions(exts): every descriptor of the array is filled, and
\* the array becomes cert.extensions.
setExtensions(exts) == [k \in 1 .. Len(exts) |-> fillMissingExtensionFields(exts[k])]

\* CLIENT_EXTENSION_SET: the descriptors of the server table.
CLIENT_EXTENSION_SET == SERVER_EXTENSION_SET

\* createP12Archive: the key, its certificate and the CA certificate under
\* the export passphrase, with the friendly name.
createP12Archive(privateKey, cert, passphrase, CACert, friendlyName) ==
    [type |-> "PKCS12", procType |-> "ENCRYPTED", dek |-> passphrase,
     body |-> [key |-> privateKey, cert |-> cert, CACert |-> CACert,
               friendlyName |-> friendlyName]]

\* writeP12Archive: the archive is what is written at the path.
writeP12Archive(p12) == p12

\* The array the command hands to createCertificate as exts: the table
\* itself, or for sign-server the table's descriptors followed by what
\* getSAN resolved with.
ExtsOf(call, tbl) ==
    IF call.op = "sign-ca" THEN tbl.CA
    ELSE IF call.op = "sign-server" THEN tbl.SERVER \o call.altNames
    ELSE CLIENT_EXTENSION_SET

\* The tables after setExtensions has gone over that array: the objects of
\* a table are the ones the array holds.
TablesAfter(call, tbl) ==
    IF call.op = "sign-ca" THEN [tbl EXCEPT !.CA = setExtensions(@)]
    ELSE IF call.op = "sign-server" THEN [tbl EXCEPT !.SERVER = setExtensions(@)]
    ELSE tbl

cliFrame == <<wr, rd, certVars, dnVars, sanVars, ld, pp>>

\* What the chain has called so far, in order, and what it has printed.
Event(ev, at) == [ev |-> ev, at |-> at]
Said(kind, text) == [kind |-> kind, text |-> text]

FirstStep(cmd) == IF cmd = "sign-ca" THEN "getPassphrase" ELSE "getCAPrivateKey"

\* The locals of an action as it starts: nothing assigned yet.
NewCommand(cmd, san, run) ==
    [op |-> cmd, san |-> san, run |-> run, pc |-> FirstStep(cmd),
     passphrase |-> Undefined, CAKey |-> Null, CACert |-> Null, attrs |-> << >>,
     altNames |-> << >>, privateKey |-> Null, cert |-> Null,
     pending |-> [path \in {} |-> Null], failed |-> {}, rejected |-> FALSE,
     trace |-> << >>, printed |-> << >>]

\* The catch at the end of the chain: the error is printed, once.
Fail(call, err) ==
    [call EXCEPT !.pc = "done", !.rejected = TRUE,
                 !.trace = Append(@, Event("failed", err)),
                 !.printed = Append(@, Said("error", err))]

\* program.parse runs the action of the command named on the command line.
RunCommand(cmd, san) ==
    /\ \/ cli = None
       \/ cli # None /\ cli.pc = "done" /\ cli.run < MaxRuns
    /\ san => cmd = "sign-server"
    /\ cli' = NewCommand(cmd, san, IF cli = None THEN 1 ELSE cli.run + 1)
    /\ UNCHANGED <<disk, tables, cliFrame>>

\* getPassphrase resolved: sign-ca goes on to the subjects, sign-client to
\* createCertificate.
GotPassphrase(result) ==
    /\ cli # None
    /\ cli.pc = "getPassphrase"
    /\ cli' = [cli EXCEPT !.passphrase = result,
                          !.pc = IF cli.op = "sign-ca" THEN "getSubjects"
                                 ELSE "createCertificate"]
    /\ UNCHANGED <<disk, tables, cliFrame>>

\* getCAPrivateKey resolved.
GotCAPrivateKey(result) ==
    /\ cli # None
    /\ cli.pc = "getCAPrivateKey"
    /\ cli' = [cli EXCEPT !.CAKey = result, !.pc = "getCACertificate"]
    /\ UNCHANGED <<disk, tables, cliFrame>>

\* getCACertificate resolved.
GotCACertificate(result) ==
    /\ cli # None
    /\ cli.pc = "getCACertificate"
    /\ cli' = [cli EXCEPT !.CACert = result, !.pc = "getSubjects"]
    /\ UNCHANGED <<disk, tables, cliFrame>>

\* getSubjects resolved.
GotSubjects(result) ==
    /\ cli # None
    /\ cli.pc = "getSubjects"
    /\ cli' = [cli EXCEPT !.attrs = result,
                          !.pc = IF cli.op = "sign-ca" THEN "createCertificate"
                                 ELSE IF cli.op = "sign-server" THEN "getSAN"
                                 ELSE "getPassphrase"]
    /\ UNCHANGED <<disk, tables, cliFrame>>

\* sign-server: getSAN() with --san, the empty array without.
GotSAN ==
    /\ cli # None
    /\ cli.pc = "getSAN"
    /\ cli' = [cli EXCEPT !.altNames = IF cli.san THEN CliAltNames ELSE << >>,
                          !.pc = "createCertificate"]
    /\ UNCHANGED <<disk, tables, cliFrame>>

\* createCertificate resolved with a key pair and the certificate made for
\* the command's serial and ttl (both clock reads on the same day);
\* setExtensions has gone over the descriptors of exts.  rsa.generateKeyPair
\* gives every run a pair of its own: the run's number stands for it.
Created ==
    /\ cli # None
    /\ cli.pc = "createCertificate"
    /\ LET n == cli.run
           ttl == IF cli.op = "sign-ca" THEN 2 ELSE 3
           serial == IF cli.op = "sign-ca" THEN "01"
                     ELSE IF cli.op = "sign-server" THEN "02" ELSE "03"
           exts == setExtensions(ExtsOf(cli, tables))
       IN  cli' = [cli EXCEPT
                      !.privateKey = PrivateKey(n),
                      !.cert = NewCertificate(PublicKey(n), clock, clock, ttl,
                                              cli.attrs, exts, serial),
                      !.pc = "sign",
                      !.trace = Append(@, Event("build", ""))]
    /\ tables' = TablesAfter(cli, tables)
    /\ UNCHANGED <<disk, cliFrame>>

\* rsa.generateKeyPair called back with an error: createCertificate rejects.
CreateFails ==
    /\ cli # None
    /\ cli.pc = "createCertificate"
    /\ cli' = Fail(cli, "generateKeyPair")
    /\ UNCHANGED <<disk, tables, cliFrame>>

\* The callback writing the certificate it was given, unsigned.
Issued_Unsigned(call) == call.cert

\* The certificate after selfSign (sign-ca) or signCertificate.
Issued(call) ==
    IF call.op = "sign-ca" THEN SelfSigned(call.cert, call.privateKey)
    ELSE CASigned(call.cert, call.CAKey, call.CACert)

\* The calls of writePrivateKey, writeCertificate and writeP12Archive, in
\* the order of the array handed to Promise.all: each has its PEM made and
\* its outputFile started.
StartWrites(call, keyPem) ==
    LET cmd == call.op
        p12 == createP12Archive(call.privateKey, call.cert, call.passphrase,
                                call.CACert, "client")
        paths == {keyPath(cmd), certPath(cmd)}
                     \cup (IF cmd = "sign-client" THEN {p12Path} ELSE {})
    IN  [call EXCEPT
            !.pc = "writing",
            !.pending = [path \in paths |->
                            IF path = keyPath(cmd) THEN keyPem
                            ELSE IF path = certPath(cmd) THEN certificateToPem(call.cert)
                            ELSE writeP12Archive(p12)],
            !.trace = @ \o << Event("writePrivateKey", keyPath(cmd)),
                              Event("writeCertificate", certPath(cmd)) >>
                        \o (IF cmd = "sign-client"
                            THEN << Event("writeP12Archive", p12Path) >> ELSE << >>)]

\* The callback after createCertificate: the certificate is signed, then the
\* writes are started.  signCertificate reads CACert.subject.attributes and
\* throws when CACert is not a certificate; writePrivateKey is called with
\* the passphrase by sign-ca, without one by the other two.
SignAndWrite ==
    /\ cli # None
    /\ cli.pc = "sign"
    /\ IF cli.op # "sign-ca" /\ ~HasSubject(cli.CACert)
       THEN cli' = Fail(cli, "TypeError: Cannot read property 'attributes' of undefined")
       ELSE LET signedCall == [cli EXCEPT !.cert = Issued(cli),
                                          !.trace = Append(@, Event("sign", ""))]
                passphrase == IF cli.op = "sign-ca" THEN cli.passphrase ELSE Undefined
            IN  \E out \in WritePemOutcomes(cli.privateKey, passphrase) :
                    cli' = IF out.ok THEN StartWrites(signedCall, out.value)
                           ELSE Fail(signedCall, out.error)
    /\ UNCHANGED <<disk, tables, cliFrame>>

Created_Message(cmd) ==
    IF cmd = "sign-ca" THEN "CA certificate created:"
    ELSE IF cmd = "sign-server" THEN "Server certificate created:"
    ELSE "Client certificate created:"

Without(pending, path) == [q \in DOMAIN pending \ {path} |-> pending[q]]

\* The success message printed as soon as one write has completed.
Settled_AnyWrite(call, path, ok) ==
    LET rest == Without(call.pending, path)
        c == [call EXCEPT
                 !.pending = rest,
                 !.pc = IF DOMAIN rest = {} THEN "done" ELSE "writing",
                 !.failed = IF ok THEN @ ELSE @ \cup {path}]
    IN  IF ok THEN [c EXCEPT !.printed = Append(@, Said("success", Created_Message(call.op)))]
        ELSE [c EXCEPT !.rejected = TRUE, !.printed = Append(@, Said("error", "EIO"))]

\* One outputFile has completed.  Promise.all rejects with the first write
\* that fails, and the catch prints the error; it resolves when the last
\* write has succeeded, and the then-callback prints the success message.
\* The writes still under way go on after a rejection.
Settled(call, path, ok) ==
    LET rest == Without(call.pending, path)
        c == [call EXCEPT
                 !.pending = rest,
                 !.pc = IF DOMAIN rest = {} THEN "done" ELSE "writing",
                 !.failed = IF ok THEN @ ELSE @ \cup {path}]
    IN  IF ~ok
        THEN IF call.rejected THEN c
             ELSE [c EXCEPT !.rejected = TRUE, !.printed = Append(@, Said("error", "EIO"))]
        ELSE IF DOMAIN rest = {} /\ ~call.rejected
             THEN [c EXCEPT !.printed = Append(@, Said("success", Created_Message(call.op)))]
             ELSE c

\* outputFile(path, pem) completes: the file is written, or the write fails.
WriteSettles(path, ok) ==
    /\ cli # None
    /\ cli.pc = "writing"
    /\ path \in DOMAIN cli.pending
    /\ cli' = Settled(cli, path, ok)
    /\ disk' = IF ok THEN [disk EXCEPT ![path] = cli.pending[path]] ELSE disk
    /\ UNCHANGED <<tables, cliFrame>>

CliInit ==
    /\ disk = [path \in CliPaths |-> NoFile]
    /\ wr = None
    /\ rd = None
    /\ DnIdle
    /\ clock = Date(FirstYear, 1, 1)
    /\ CertIdle
    /\ AskIdle

CliNext ==
    \/ \E cmd \in Commands, san \in BOOLEAN : RunCommand(cmd, san)
    \/ \E result \in PassStrings : GotPassphrase(result)
    \/ \E result \in KeyLoads(disk) : GotCAPrivateKey(result)
    \/ \E result \in CertLoads(disk) : GotCACertificate(result)
    \/ \E result \in CliSubjects : GotSubjects(result)
    \/ GotSAN
    \/ Created
    \/ CreateFails
    \/ SignAndWrite
    \/ \E path \in CliPaths, ok \in BOOLEAN : WriteSettles(path, ok)

SpecCli == CliInit /\ [][CliNext]_vars

(***************************************************************************)
(* Properties of the key files.                                            *)
(***************************************************************************)

\* rd read back, with the passphrase of the call, the file wr wrote.
ReadBack ==
    /\ wr # None
    /\ rd # None
    /\ wr.result.ok
    /\ rd.keyPath = wr.keyPath
    /\ rd.pem = wr.result.value
    /\ rd.passphrase = wr.passphrase

\* C1: for every private key k and every passphrase string p, the empty one
\* included, readPrivateKey(path, p) on the file writePrivateKey(k, path, p)
\* wrote yields k.
C1_RoundTrip ==
    (ReadBack /\ isString(wr.passphrase)) => rd.result = Ok(wr.privateKey)

\* C2: writePrivateKey completes, and the file it writes is encrypted exactly
\* when the passphrase is a non-empty string: an empty or absent passphrase
\* gives a plain key file.
C2_EncryptedIffNonEmpty ==
    wr # None =>
        /\ wr.result.ok
        /\ wr.result.value.procType = "ENCRYPTED"
              <=> (isString(wr.passphrase) /\ wr.passphrase # "")

\* rd read a key file encrypted under a non-empty passphrase, with another
\* passphrase or none.
ReadWithWrongPassphrase ==
    /\ rd # None
    /\ rd.pem # NoFile
    /\ rd.pem.procType = "ENCRYPTED"
    /\ rd.pem.dek # ""
    /\ rd.passphrase # rd.pem.dek

\* C3: reading a key file encrypted under a non-empty passphrase p with a
\* different, an empty or an absent passphrase fails with an error and
\* returns no private key.
C3_WrongPassphraseFails ==
    ReadWithWrongPassphrase =>
        /\ ~rd.result.ok
        /\ rd.result.error \in
              {"Failed to decrypt private key, please check your passphrase.",
               "Could not convert private key from PEM; PEM is encrypted."}

C3_Witness ==
    /\ ReadWithWrongPassphrase
    /\ rd.pem.dek = "s"
    /\ rd.passphrase = "t"
    /\ ~rd.result.ok

(***************************************************************************)
(* Properties of signing.                                                  *)
(***************************************************************************)

\* C4: after signCertificate with the CA private key that matches CACert's
\* public key, the issuer is CACert's subject, the signature is made with
\* SHA-256 and verifies against CACert's public key, and against no other
\* public key.
C4_CASignedVerifies ==
    (signed # None /\ signed.op = "signCertificate"
        /\ signed.key.n = signed.CACert.publicKey.n) =>
        /\ signed.result.ok
        /\ signed.result.value.issuer = signed.CACert.subject
        /\ signed.result.value.md = "sha256"
        /\ Verifies(signed.CACert.publicKey, signed.result.value)
        /\ \A n \in KeyIds :
              n # signed.CACert.publicKey.n
                  => ~Verifies(PublicKey(n), signed.result.value)

C4_Witness ==
    /\ signed # None
    /\ signed.op = "signCertificate"
    /\ signed.key.n = signed.CACert.publicKey.n
    /\ signed.result.value.publicKey.n # signed.key.n
    /\ signed.result.value.subject # signed.CACert.subject
    /\ Verifies(signed.CACert.publicKey, signed.result.value)

\* C5: after selfSign with the private key createCertificate generated with
\* the certificate, the issuer is the certificate's own subject and the
\* signature verifies against the certificate's own public key.
C5_SelfSignedVerifies ==
    (signed # None /\ signed.op = "selfSign" /\ signed.key = made.privateKey) =>
        /\ signed.result.ok
        /\ signed.result.value.issuer = signed.result.value.subject
        /\ signed.result.value.subject = made.cert.subject
        /\ signed.result.value.publicKey = made.cert.publicKey
        /\ Verifies(signed.result.value.publicKey, signed.result.value)

C5_Witness ==
    /\ signed # None
    /\ signed.op = "selfSign"
    /\ signed.key = made.privateKey
    /\ signed.result.value.issuer # << >>
    /\ Verifies(signed.result.value.publicKey, signed.result.value)

\* signCertificate was called with a CA key that is not CACert's.
CAKeyMismatch ==
    /\ signed # None
    /\ signed.op = "signCertificate"
    /\ signed.key.n # signed.CACert.publicKey.n

\* C6: signCertificate with a CA private key that does not match CACert's
\* public key raises nothing, sets the issuer to CACert's subject and
\* returns a certificate whose signature does not verify against CACert's
\* public key.
C6_MismatchSignsSilently ==
    CAKeyMismatch =>
        /\ signed.result.ok
        /\ signed.result.value.issuer = signed.CACert.subject
        /\ signed.result.value.signature # Null
        /\ ~Verifies(signed.CACert.publicKey, signed.result.value)

C6_Witness ==
    /\ CAKeyMismatch
    /\ signed.result.ok
    /\ signed.result.value.signature # Null
    /\ ~Verifies(signed.CACert.publicKey, signed.result.value)

\* selfSign was called with a private key that is not the certificate's.
SelfKeyMismatch ==
    /\ signed # None
    /\ signed.op = "selfSign"
    /\ signed.key.n # signed.before.publicKey.n

\* C7, as claimed: selfSign raises an error, and leaves no signed
\* certificate, whenever the private key is not the one of the
\* certificate's public key.
C7_SelfSignMismatchFails ==
    SelfKeyMismatch => ~signed.result.ok

\* C7, amended: selfSign with a private key that is not the one of the
\* certificate's public key raises nothing; it leaves a certificate whose
\* issuer is its subject and whose signature verifies against the public
\* key of the key used, not against the certificate's own.
C7_SelfSignMismatchSigns ==
    SelfKeyMismatch =>
        /\ signed.result.ok
        /\ signed.result.value.issuer = signed.result.value.subject
        /\ signed.result.value.signature # Null
        /\ Verifies(PublicKey(signed.key.n), signed.result.value)
        /\ ~Verifies(signed.result.value.publicKey, signed.result.value)

C7_Witness ==
    /\ SelfKeyMismatch
    /\ signed.result.ok
    /\ ~Verifies(signed.result.value.publicKey, signed.result.value)

(***************************************************************************)
(* Properties of the validity window.                                      *)
(***************************************************************************)
MonthDay(date) == <<date.month, date.day>>

\* C8, as claimed: for every creation date and every ttl, notAfter is ttl
\* years after notBefore, on the same month and day.
C8_SameMonthDay ==
    made # None =>
        /\ made.cert.notAfter.year - made.cert.notBefore.year = made.ttl
        /\ MonthDay(made.cert.notAfter) = MonthDay(made.cert.notBefore)

\* C8, amended: notAfter.year - notBefore.year is ttl; notAfter's month and
\* day are those of the clock's second reading (notBefore's day, or the day
\* after it when midnight passed between the readings), but 1 March when
\* that day is 29 February and the year of notAfter is not a leap year.
C8_ValidityWindow ==
    made # None =>
        LET nb == made.cert.notBefore
            na == made.cert.notAfter
        IN  /\ na.year - nb.year = made.ttl
            /\ \E base \in {nb, NextDay(nb)} :
                  MonthDay(na) =
                      IF MonthDay(base) = <<2, 29>> /\ ~IsLeapYear(na.year)
                      THEN <<3, 1>>
                      ELSE MonthDay(base)

C8_Witness ==
    /\ made # None
    /\ MonthDay(made.cert.notBefore) = <<2, 29>>
    /\ MonthDay(made.cert.notAfter) = <<3, 1>>
    /\ made.cert.notAfter.year - made.cert.notBefore.year = made.ttl

(***************************************************************************)
(* Properties of parseAttrsFromString, stated on the characters of the     *)
(* input string.                                                           *)
(***************************************************************************)
Slashes(s) == {i \in 1 .. Len(s) : s[i] = "/"}

\* The position of the k-th '/' of s.
NthSlash(s, k) ==
    CHOOSE i \in Slashes(s) : Cardinality({j \in Slashes(s) : j <= i}) = k

\* The segment that follows the '/' at position i: up to the next '/' or
\* the end of the string.
SegmentAfter(s, i) ==
    LET later == {j \in Slashes(s) : j > i}
        stop == IF later = {} THEN Len(s) + 1
                ELSE CHOOSE j \in later : \A l \in later : j <= l
    IN  SubSeq(s, i + 1, stop - 1)

\* The segment before the first '/': the whole string when it has none.
FirstSegment(s) ==
    IF Slashes(s) = {} THEN s
    ELSE SubSeq(s, 1, (CHOOSE i \in Slashes(s) : \A j \in Slashes(s) : i <= j) - 1)

HasEq(seg) == \E j \in 1 .. Len(seg) : seg[j] = "="
FirstEq(seg) == CHOOSE j \in 1 .. Len(seg) : seg[j] = "=" /\ \A k \in 1 .. (j - 1) : seg[k] # "="

\* seg is T=V with T not empty and free of '=', and V not empty.
IsTypeValue(seg) == HasEq(seg) /\ 1 < FirstEq(seg) /\ FirstEq(seg) < Len(seg)
TypeOf(seg) == SubSeq(seg, 1, FirstEq(seg) - 1)
ValueOf(seg) == SubSeq(seg, FirstEq(seg) + 1, Len(seg))
OneLine(str) == \A j \in 1 .. Len(str) : str[j] \notin LineTerminators

\* s is /T0=V0/T1=V1/.../Tn=Vn, or is empty.
WellFormedDn(s) ==
    /\ FirstSegment(s) = << >>
    /\ \A i \in Slashes(s) : IsTypeValue(SegmentAfter(s, i))

\* One attribute per '/', in the order of the string, split at the first '='.
ExactAttrs(s, attrs) ==
    /\ Len(attrs) = Cardinality(Slashes(s))
    /\ \A k \in 1 .. Len(attrs) :
          LET seg == SegmentAfter(s, NthSlash(s, k))
          IN  attrs[k] = Attr(TypeOf(seg), ValueOf(seg))

\* C9, as claimed: every string /T0=V0/.../Tn=Vn (types non-empty, free of
\* '=' and '/'; values non-empty, free of '/') parses to exactly the n+1
\* attributes (Ti, Vi) in input order, split at the first '=' of each
\* segment, repeated types kept; the empty string parses to no attribute.
C9_WellFormedParses ==
    (dnOut # None /\ WellFormedDn(dnStr)) =>
        /\ dnOut.result.ok
        /\ ExactAttrs(dnStr, dnOut.result.value)

\* C9, amended: the same, for the strings whose values are also free of
\* line terminators.
C9_OneLineWellFormedParses ==
    (/\ dnOut # None
     /\ WellFormedDn(dnStr)
     /\ \A i \in Slashes(dnStr) : OneLine(ValueOf(SegmentAfter(dnStr, i)))) =>
        /\ dnOut.result.ok
        /\ ExactAttrs(dnStr, dnOut.result.value)
        /\ (dnStr = << >> => dnOut.result.value = << >>)

\* Two attributes of the same type, the second value holding a later '='.
C9_Witness ==
    /\ dnOut # None
    /\ WellFormedDn(dnStr)
    /\ dnOut.result.ok
    /\ Len(dnOut.result.value) = 2
    /\ dnOut.result.value[1].shortName = dnOut.result.value[2].shortName
    /\ dnOut.result.value[1].value = << "a" >>
    /\ dnOut.result.value[2].value = << "=" >>

AllSegments(s) == {FirstSegment(s)} \cup {SegmentAfter(s, i) : i \in Slashes(s)}

\* C10, as claimed: the call fails exactly when some non-empty segment has
\* no '='; the error names that segment; empty segments are skipped and
\* every segment with a '=' yields an attribute.
C10_FailsIffSegmentWithoutEq ==
    dnOut # None =>
        /\ ~dnOut.result.ok
              <=> \E seg \in AllSegments(dnStr) : seg # << >> /\ ~HasEq(seg)
        /\ ~dnOut.result.ok =>
              (dnOut.result.error.pair # << >> /\ ~HasEq(dnOut.result.error.pair))
        /\ dnOut.result.ok =>
              Len(dnOut.result.value) =
                  Cardinality({i \in Slashes(dnStr) : HasEq(SegmentAfter(dnStr, i))})

\* The '/' whose segment is not T=V with T and V non-empty and V on one line.
BadSlashes(s) ==
    {i \in Slashes(s) :
        LET seg == SegmentAfter(s, i)
        IN  ~(IsTypeValue(seg) /\ OneLine(ValueOf(seg)))}

\* C10, amended: the call fails exactly when some segment after the first
\* '/' is not T=V with a non-empty T before its first '=' and a non-empty V
\* free of line terminators after it; an empty segment (a doubled slash, a
\* trailing slash) is such a segment.  The error thrown is 'Subjects
\* malformed: ' followed by the first such segment.  What precedes the first
\* '/' is dropped unseen; when the call succeeds every segment after the
\* first '/' yields an attribute.
C10_FailsIffBadSegment ==
    dnOut # None =>
        /\ ~dnOut.result.ok <=> BadSlashes(dnStr) # {}
        /\ ~dnOut.result.ok =>
              LET first == CHOOSE i \in BadSlashes(dnStr) :
                               \A j \in BadSlashes(dnStr) : i <= j
              IN  dnOut.result.error =
                      [message |-> "Subjects malformed: ",
                       pair |-> SegmentAfter(dnStr, first)]
        /\ dnOut.result.ok => ExactAttrs(dnStr, dnOut.result.value)

\* A trailing slash after a good segment: the empty segment is the one named.
C10_Witness ==
    /\ dnOut # None
    /\ dnStr = << "/", "a", "=", "a", "/" >>
    /\ ~dnOut.result.ok
    /\ dnOut.result.error.pair = << >>

\* The non-empty segments of s, each counted where it stands: 0 stands for
\* the segment before the first '/', i for the one after the '/' at i.
NonEmptySegments(s) ==
    {i \in Slashes(s) : SegmentAfter(s, i) # << >>}
        \cup (IF FirstSegment(s) # << >> THEN {0} ELSE {})

\* C18: parseAttrsFromString never silently discards a non-empty segment:
\* for every input string, one that does not start with '/' included, each
\* non-empty slash-separated segment is an attribute of the result unless
\* the call fails.
C18_NoSegmentDiscarded ==
    (dnOut # None /\ dnOut.result.ok) =>
        Len(dnOut.result.value) = Cardinality(NonEmptySegments(dnStr))

(***************************************************************************)
(* Properties of getSAN, stated on the characters of the answers.          *)
(***************************************************************************)
Commas(s) == {i \in 1 .. Len(s) : s[i] = ","}

\* The k-th comma-separated token of s, as typed.
TokenAt(s, k) ==
    LET start == IF k = 1 THEN 1
                 ELSE 1 + (CHOOSE i \in Commas(s) :
                              Cardinality({j \in Commas(s) : j <= i}) = k - 1)
        later == {j \in Commas(s) : j >= start}
        stop == IF later = {} THEN Len(s) + 1
                ELSE CHOOSE j \in later : \A l \in later : j <= l
    IN  SubSeq(s, start, stop - 1)

NumTokens(s) == Cardinality(Commas(s)) + 1

RECURSIVE NoSpaces(_)
NoSpaces(str) ==
    IF str = << >> THEN << >>
    ELSE IF Head(str) = " " THEN NoSpaces(Tail(str))
    ELSE << Head(str) >> \o NoSpaces(Tail(str))

HasSpace(str) == \E j \in 1 .. Len(str) : str[j] = " "

\* The text an alt-name entry carries.
EntryText(entry) == IF entry.type = 6 THEN entry.value ELSE entry.ip

C12_NoSpaceInEntries ==
    sanOut # None =>
        \A k \in 1 .. Len(sanOut.result.value[1].altNames) :
            ~HasSpace(EntryText(sanOut.result.value[1].altNames[k]))

(***************************************************************************)
(* Properties of getCAPrivateKey and getCACertificate.                     *)
(***************************************************************************)

\* C13: whenever getCACertificate resolves, whatever the answers, the value
\* is a certificate decoded from a certificate file, never a private key.
C13_ResolvesWithCertificate ==
    (ld # None /\ ld.op = "getCACertificate" /\ ld.status = "resolved") =>
        /\ disk[ld.from].type = "CERTIFICATE"
        /\ ld.result = disk[ld.from].body
        /\ ld.result \notin PrivateKeys

\* getCAPrivateKey was called with a path at which there is no file.
CalledWithMissingKeyPath ==
    /\ ld # None
    /\ ld.op = "getCAPrivateKey"
    /\ isString(ld.arg)
    /\ ~pathExistsSync(disk, ld.arg)

\* C14, as claimed: getCAPrivateKey called with a path that does not exist
\* fails, and never resolves with a key read from another path.
C14_MissingPathFails ==
    CalledWithMissingKeyPath => ld.status # "resolved"

\* C14, amended: getCAPrivateKey called with a path that does not exist
\* never fails: the not-found error is printed, not passed to the caller,
\* and the path and passphrase are asked for until a key is read; it
\* resolves only with the key read from an existing file entered at such a
\* prompt.
C14_MissingPathPromptsAgain ==
    CalledWithMissingKeyPath =>
        /\ ld.status \in {"prompting", "resolved"}
        /\ (ld.printed # {} \/ ld.status = "resolved")
              => NotFound("private key", ld.arg) \in ld.printed
        /\ ld.status = "resolved" =>
              /\ ld.from # ld.arg
              /\ pathExistsSync(disk, ld.from)
              /\ ld.result \in PrivateKeys
              /\ ld.result = disk[ld.from].body

C14_Witness ==
    /\ CalledWithMissingKeyPath
    /\ ld.status = "resolved"
    /\ ld.from = "ca.key"
    /\ ld.result = PrivateKey(1)
    /\ NotFound("private key", "gone") \in ld.printed

(***************************************************************************)
(* Properties of getPassphrase.                                            *)
(***************************************************************************)
\* A round that ends the call: an empty passphrase, or one confirmed.
EndsCall(round) ==
    round.passphrase = "" \/ round.passphraseConfirm = round.passphrase

\* C15: getPassphrase resolves with p only if p is empty or the confirmation
\* of the same round equals p; a round whose confirmation differs is
\* followed by a fresh round of the prompts; the call ends at the first
\* round whose passphrase is empty or confirmed, so it has ended as soon as
\* the user has entered such a round.
C15_EndsAtFirstConfirmedRound ==
    pp # None =>
        LET n == Len(pp.rounds)
        IN  /\ \A k \in 1 .. (n - 1) : ~EndsCall(pp.rounds[k])
            /\ pp.status = "resolved" <=> (n > 0 /\ EndsCall(pp.rounds[n]))
            /\ pp.status = "resolved" => pp.result = pp.rounds[n].passphrase
            /\ pp.status \in {"prompting", "resolved"}

\* A first round that does not match, then a round that does.
C15_Witness ==
    /\ pp # None
    /\ pp.status = "resolved"
    /\ Len(pp.rounds) = 2
    /\ pp.rounds[1] = Round("s", "t")
    /\ pp.rounds[2] = Round("t", "t")
    /\ pp.result = "t"

(***************************************************************************)
(* Properties of the commands.                                             *)
(***************************************************************************)
\* C16: after any sequence of sign-ca and sign-server issuances, with or
\* without --san, the shared tables CA_EXTENSION_SET and
\* SERVER_EXTENSION_SET are unchanged: same length and same descriptors with
\* the same fields as at start-up; a requested SAN descriptor is appended to
\* a copy and never appears in SERVER_EXTENSION_SET.
C16_TablesUnchanged ==
    /\ Len(tables.CA) = Len(CA_EXTENSION_SET)
    /\ Len(tables.SERVER) = Len(SERVER_EXTENSION_SET)
    /\ \A k \in 1 .. Len(tables.CA) : tables.CA[k] = CA_EXTENSION_SET[k]
    /\ \A k \in 1 .. Len(tables.SERVER) : tables.SERVER[k] = SERVER_EXTENSION_SET[k]
    /\ \A k \in 1 .. Len(tables.SERVER) : tables.SERVER[k].name # "subjectAltName"

Calls(trace, names) == {i \in 1 .. Len(trace) : trace[i].ev \in names}
WriteCalls == {"writePrivateKey", "writeCertificate", "writeP12Archive"}

\* Every write call comes after a sign, every sign after a build.
BuildSignWrite(trace) ==
    /\ \A i \in Calls(trace, WriteCalls) : \E j \in Calls(trace, {"sign"}) : j < i
    /\ \A j \in Calls(trace, {"sign"}) : \E k \in Calls(trace, {"build"}) : k < j

\* The certificate a written file holds, Null for a key file.
CertificateIn(file) ==
    IF file.type = "CERTIFICATE" THEN file.body
    ELSE IF file.type = "PKCS12" THEN file.body.cert
    ELSE Null

\* cert carries a signature, made over the certificate as it is, issuer
\* included.
IsSigned(cert) ==
    /\ cert.signature # Null
    /\ cert.signature.over = TBSCertificate(cert)

\* C17: in every run of sign-ca, sign-server and sign-client the steps of
\* one issuance happen in the order build, sign, write: no key file,
\* certificate file or PKCS#12 archive is written before signing has
\* completed, and every certificate written to disk has the issuer the
\* signer gave it and a signature.
C17_BuildThenSignThenWrite ==
    [][/\ cli' # None => BuildSignWrite(cli'.trace)
       /\ \A path \in DOMAIN disk :
             disk'[path] # disk[path] =>
                 /\ cli # None
                 /\ Calls(cli.trace, {"sign"}) # {}
                 /\ CertificateIn(disk'[path]) # Null =>
                       /\ IsSigned(CertificateIn(disk'[path]))
                       /\ CertificateIn(disk'[path]).issuer =
                             IF cli.op = "sign-ca"
                             THEN CertificateIn(disk'[path]).subject
                             ELSE cli.CACert.subject]_vars

\* sign-server has written its certificate, signed by the CA key it loaded.
C17_Witness ==
    /\ cli # None
    /\ cli.op = "sign-server"
    /\ [k \in 1 .. Len(cli.trace) |-> cli.trace[k].ev]
           = << "build", "sign", "writePrivateKey", "writeCertificate" >>
    /\ disk["server.crt"] # NoFile
    /\ disk["server.crt"].body.signature.by = cli.CAKey.n
    /\ disk["server.crt"].body.issuer = cli.CACert.subject

Printed(kind) == {i \in 1 .. Len(cli.printed) : cli.printed[i].kind = kind}

\* Some step of the chain has failed: a callback threw, a promise was
\* rejected or a write did not complete.
StepFailed == cli.failed # {} \/ Calls(cli.trace, {"failed"}) # {}

\* C19: in sign-ca and sign-server the success message is printed only
\* after both the private-key write and the certificate write have
\* completed successfully; if any step of the chain fails, the error is
\* printed and the success message is never printed.
C19_SuccessOnlyAfterBothWrites ==
    (cli # None /\ cli.op \in {"sign-ca", "sign-server"}) =>
        /\ Printed("success") # {} =>
              /\ DOMAIN cli.pending = {}
              /\ ~StepFailed
              /\ Calls(cli.trace, {"writePrivateKey"}) # {}
              /\ Calls(cli.trace, {"writeCertificate"}) # {}
              /\ disk[keyPath(cli.op)] # NoFile
              /\ disk[keyPath(cli.op)].body = cli.privateKey
              /\ disk[certPath(cli.op)] = certificateToPem(cli.cert)
        /\ StepFailed => (Printed("error") # {} /\ Printed("success") = {})
        /\ cli.pc = "done" => Len(cli.printed) = 1

\* sign-ca has printed its message: both files are there.
C19_Witness ==
    /\ cli # None
    /\ cli.op = "sign-ca"
    /\ cli.pc = "done"
    /\ cli.printed = << Said("success", "CA certificate created:") >>
    /\ disk["ca.key"] = encryptRsaPrivateKey(cli.privateKey, cli.passphrase)
    /\ disk["ca.crt"] = certificateToPem(cli.cert)

====
